---- MODULE Spec2Model ----
(***************************************************************************)
(* Model of UniversityManagementSystem (src/index.ts): the students,       *)
(* courses and grades collections, the id counters, and the operations     *)
(* enrollStudent, registerForCourse, setGrade, updateStudentStatus and     *)
(* calculateAverageGrade.  Every call, failing or not, is one step; the    *)
(* variable last records the call and its outcome (the thrown error or     *)
(* "ok"), ret the value it returned.  returnedIds (the ids enrollStudent   *)
(* has returned, in call order) and registered (the pairs registerForCourse*)
(* has accepted) are history variables, as is wasExpelled (the ids of the  *)
(* students whose status has been Expelled): no operation reads them.      *)
(*                                                                         *)
(* Spec runs the mutating operations from the freshly constructed system,  *)
(* the catalog being the one the demo script seeds.  SpecQuery applies the *)
(* queries calculateAverageGrade and getTopStudentsByFaculty, pure         *)
(* functions of the collections, to collections drawn from a bounded set.  *)
(*                                                                         *)
(* Dates (enrollmentDate, Grade.date) are wall-clock readings that no      *)
(* operation ever branches on; they are left out of the records.           *)
(***************************************************************************)
EXTENDS Integers, Sequences, FiniteSets, TLC

VARIABLES students, courses, grades, nextStudentId, nextCourseId,
          last, ret, returnedIds, registered, wasExpelled

vars == <<students, courses, grades, nextStudentId, nextCourseId,
          last, ret, returnedIds, registered, wasExpelled>>

(* ---------------------------- bounds ----------------------------------- *)
MaxStudents == 2
MaxRecords == 3

(* ---------------------------- enums ------------------------------------ *)
StudentStatus == {"Active", "Academic_Leave", "Graduated", "Expelled"}
CourseType == {"Mandatory", "Optional", "Special"}
Semester == {"First", "Second"}
Excellent == 5
Good == 4
Satisfactory == 3
Unsatisfactory == 2
GradeEnum == {Excellent, Good, Satisfactory, Unsatisfactory}
Faculty == {"Computer_Science", "Economics", "Law", "Engineering"}

(* grade: GradeEnum | null -- an optional value: <<>> is null, <<g>> is g *)
Null == <<>>
Some(g) == <<g>>

(* the argument records the callers pass to enrollStudent (the demo        *)
(* script's two students)                                                  *)
StudentInputs ==
    { [fullName |-> "Ivan Ivanov", faculty |-> "Computer_Science", year |-> 1,
       status |-> "Active", groupNumber |-> "CS-101"],
      [fullName |-> "Maria Petrenko", faculty |-> "Economics", year |-> 2,
       status |-> "Active", groupNumber |-> "ECO-201"] }

(* the catalog the caller seeds: course1 and course2 of the demo script *)
course1 ==
    [id |-> 1, name |-> "Data Structures", type |-> "Mandatory", credits |-> 5,
     semester |-> "First", faculty |-> "Computer_Science", maxStudents |-> 2]

course2 ==
    [id |-> 2, name |-> "Microeconomics", type |-> "Optional", credits |-> 3,
     semester |-> "Second", faculty |-> "Economics", maxStudents |-> 1]

StudentIds == 1..MaxStudents
(* the grades setGrade is called with, and the grades of the collections   *)
(* the queries are applied to                                              *)
GradeInputs == {Excellent, Good}
QueryGradeInputs == {Excellent, Good, Satisfactory}
(* the student id updateStudentStatus is called with: the first student's  *)
(* (an unknown id as long as nobody is enrolled)                           *)
StatusIds == {1}
CourseIds == {course1.id, course2.id}

(* ---------------------------- helpers ---------------------------------- *)
(* Array.prototype.find, given the outcome of the test on each element:    *)
(* the index of the first element that passes, 0 when none does (find      *)
(* returns undefined)                                                      *)
FindIndex(passes) ==
    IF \E i \in 1..Len(passes) : passes[i]
    THEN CHOOSE i \in 1..Len(passes) :
            passes[i] /\ \A j \in 1..(i - 1) : ~passes[j]
    ELSE 0

(* Array.prototype.reduce((acc, g) => acc + (g.grade || 0), acc) *)
RECURSIVE ReduceGrades(_, _)
ReduceGrades(seq, acc) ==
    IF seq = <<>> THEN acc
    ELSE ReduceGrades(Tail(seq),
                      acc + (IF Head(seq).grade = Null THEN 0
                             ELSE Head(seq).grade[1]))

(* a JavaScript number that is a quotient of two integers, kept in lowest  *)
(* terms so that equal numbers are equal values                            *)
RECURSIVE GCD(_, _)
GCD(a, b) == IF b = 0 THEN a ELSE GCD(b, a % b)

Quotient(n, d) == [num |-> n \div GCD(n, d), den |-> d \div GCD(n, d)]

Zero == [num |-> 0, den |-> 1]

(* ---------------------------- initial state ---------------------------- *)
Init ==
    /\ students = <<>>
    /\ courses = <<>>
    /\ grades = <<>>
    /\ nextStudentId = 1
    /\ nextCourseId = 1
    /\ last = [op |-> "new", args |-> <<>>, result |-> "ok"]
    /\ ret = <<>>
    /\ returnedIds = <<>>
    /\ registered = {}
    /\ wasExpelled = {}

(* the ids of the students of a collection whose status is Expelled *)
NowExpelled(studs) ==
    {studs[i].id : i \in {j \in 1..Len(studs) : studs[j].status = "Expelled"}}

(* ---------------------------- enrollStudent ---------------------------- *)
NewStudent(student, id) ==
    [id |-> id, fullName |-> student.fullName, faculty |-> student.faculty,
     year |-> student.year, status |-> student.status,
     groupNumber |-> student.groupNumber]

(* faulty variant: the id is used but the counter is not advanced *)
enrollStudent_noIncrement(student) ==
    /\ Len(students) < MaxStudents
    /\ students' = Append(students, NewStudent(student, nextStudentId))
    /\ nextStudentId' = nextStudentId
    /\ last' = [op |-> "enrollStudent", args |-> <<student>>, result |-> "ok"]
    /\ ret' = NewStudent(student, nextStudentId)
    /\ returnedIds' = Append(returnedIds, nextStudentId)
    /\ wasExpelled' = wasExpelled \cup NowExpelled(students')
    /\ UNCHANGED <<courses, grades, nextCourseId, registered>>

enrollStudent(student) ==
    /\ Len(students) < MaxStudents
    /\ students' = Append(students, NewStudent(student, nextStudentId))
    /\ nextStudentId' = nextStudentId + 1
    /\ last' = [op |-> "enrollStudent", args |-> <<student>>, result |-> "ok"]
    /\ ret' = NewStudent(student, nextStudentId)
    /\ returnedIds' = Append(returnedIds, nextStudentId)
    /\ wasExpelled' = wasExpelled \cup NowExpelled(students')
    /\ UNCHANGED <<courses, grades, nextCourseId, registered>>

(* -------- the course catalog: ums['courses'].push(course1, course2) ---- *)
pushCourses ==
    /\ courses = <<>>
    /\ courses' = courses \o <<course1, course2>>
    /\ last' = [op |-> "pushCourses", args |-> <<>>, result |-> "ok"]
    /\ ret' = <<>>
    /\ UNCHANGED <<students, grades, nextStudentId, nextCourseId, returnedIds,
                   registered, wasExpelled>>

(* ---------------------------- registerForCourse ------------------------ *)
(* this.courses.find(c => c.id === courseId) *)
FindCourse(courseId) ==
    FindIndex([i \in 1..Len(courses) |-> courses[i].id = courseId])

(* this.students.find(s => s.id === studentId) *)
FindStudent(studentId) ==
    FindIndex([i \in 1..Len(students) |-> students[i].id = studentId])

(* faulty variant: graded records are not counted *)
RegistrationCount_ungraded(courseId) ==
    Len(SelectSeq(grades, LAMBDA g : g.courseId = courseId /\ g.grade = Null))

(* this.grades.filter(g => g.courseId === courseId).length *)
RegistrationCount(courseId) ==
    Len(SelectSeq(grades, LAMBDA g : g.courseId = courseId))

(* faulty variant: > for >= *)
CourseIsFull_strict(courseId, course) ==
    RegistrationCount(courseId) > course.maxStudents

(* faulty variant: full one registration early *)
CourseIsFull_early(courseId, course) ==
    RegistrationCount(courseId) + 1 >= course.maxStudents

CourseIsFull(courseId, course) ==
    RegistrationCount(courseId) >= course.maxStudents

(* faulty variant: only Active students may register *)
registerOutcome_activeOnly(studentId, courseId) ==
    LET c == FindCourse(courseId)
        s == FindStudent(studentId)
    IN  IF c = 0 \/ s = 0 THEN "InvalidReference"
        ELSE IF students[s].status # "Active" THEN "InvalidReference"
        ELSE IF courses[c].faculty # students[s].faculty THEN "FacultyMismatch"
        ELSE IF CourseIsFull(courseId, courses[c]) THEN "CourseFull"
        ELSE "ok"

(* faulty variant: the capacity check placed before the faculty check *)
registerOutcome_capacityFirst(studentId, courseId) ==
    LET c == FindCourse(courseId)
        s == FindStudent(studentId)
    IN  IF c = 0 \/ s = 0 THEN "InvalidReference"
        ELSE IF CourseIsFull(courseId, courses[c]) THEN "CourseFull"
        ELSE IF courses[c].faculty # students[s].faculty THEN "FacultyMismatch"
        ELSE "ok"

(* faulty variant: the faculty check left out *)
registerOutcome_noFacultyCheck(studentId, courseId) ==
    LET c == FindCourse(courseId)
        s == FindStudent(studentId)
    IN  IF c = 0 \/ s = 0 THEN "InvalidReference"
        ELSE IF CourseIsFull(courseId, courses[c]) THEN "CourseFull"
        ELSE "ok"

(* the error registerForCourse throws, "ok" when it throws none *)
registerOutcome(studentId, courseId) ==
    LET c == FindCourse(courseId)
        s == FindStudent(studentId)
    IN  IF c = 0 \/ s = 0 THEN "InvalidReference"
        ELSE IF courses[c].faculty # students[s].faculty THEN "FacultyMismatch"
        ELSE IF CourseIsFull(courseId, courses[c]) THEN "CourseFull"
        ELSE "ok"

(* faulty variant: the record is put at the front (unshift for push) *)
registerForCourse_unshift(studentId, courseId) ==
    LET r == registerOutcome(studentId, courseId)
    IN  /\ grades' =
             IF r = "ok"
             THEN <<[studentId |-> studentId, courseId |-> courseId,
                     grade |-> Null,
                     semester |-> courses[FindCourse(courseId)].semester]>>
                  \o grades
             ELSE grades
        /\ last' = [op |-> "registerForCourse",
                    args |-> <<studentId, courseId>>, result |-> r]
        /\ ret' = <<>>
        /\ registered' = IF r = "ok" THEN registered \cup {<<studentId, courseId>>}
                          ELSE registered
        /\ UNCHANGED <<students, courses, nextStudentId, nextCourseId,
                       returnedIds, wasExpelled>>

registerForCourse(studentId, courseId) ==
    LET r == registerOutcome(studentId, courseId)
    IN  /\ grades' =
             IF r = "ok"
             THEN Append(grades,
                     [studentId |-> studentId, courseId |-> courseId,
                      grade |-> Null,
                      semester |-> courses[FindCourse(courseId)].semester])
             ELSE grades
        /\ last' = [op |-> "registerForCourse",
                    args |-> <<studentId, courseId>>, result |-> r]
        /\ ret' = <<>>
        /\ registered' = IF r = "ok" THEN registered \cup {<<studentId, courseId>>}
                          ELSE registered
        /\ UNCHANGED <<students, courses, nextStudentId, nextCourseId,
                       returnedIds, wasExpelled>>

(* ---------------------------- setGrade --------------------------------- *)
(* faulty variant: the student id is not compared *)
FindRegistration_courseOnly(studentId, courseId) ==
    FindIndex([i \in 1..Len(grades) |-> grades[i].courseId = courseId])

(* faulty variant: the last record of the pair is found, not the first *)
FindRegistration_last(studentId, courseId) ==
    LET M == {i \in 1..Len(grades) :
                grades[i].studentId = studentId /\ grades[i].courseId = courseId}
    IN  IF M = {} THEN 0 ELSE CHOOSE i \in M : \A j \in M : j <= i

(* this.grades.find(g => g.studentId === studentId && g.courseId === courseId) *)
FindRegistration(studentId, courseId) ==
    FindIndex([i \in 1..Len(grades) |->
                  grades[i].studentId = studentId /\ grades[i].courseId = courseId])

(* faulty variant: every record of the pair is graded, not the first one *)
setGrade_everyMatch(studentId, courseId, grade) ==
    LET registration == FindRegistration(studentId, courseId)
    IN  /\ grades' =
             [i \in 1..Len(grades) |->
                 IF grades[i].studentId = studentId /\ grades[i].courseId = courseId
                 THEN [grades[i] EXCEPT !.grade = Some(grade)]
                 ELSE grades[i]]
        /\ last' = [op |-> "setGrade",
                    args |-> <<studentId, courseId, grade>>,
                    result |-> IF registration = 0 THEN "NotRegistered"
                               ELSE "ok"]
        /\ ret' = <<>>
        /\ UNCHANGED <<students, courses, nextStudentId, nextCourseId,
                       returnedIds, registered, wasExpelled>>

setGrade(studentId, courseId, grade) ==
    LET registration == FindRegistration(studentId, courseId)
    IN  /\ grades' =
             IF registration = 0 THEN grades
             ELSE [grades EXCEPT ![registration].grade = Some(grade)]
        /\ last' = [op |-> "setGrade",
                    args |-> <<studentId, courseId, grade>>,
                    result |-> IF registration = 0 THEN "NotRegistered"
                               ELSE "ok"]
        /\ ret' = <<>>
        /\ UNCHANGED <<students, courses, nextStudentId, nextCourseId,
                       returnedIds, registered, wasExpelled>>

(* ---------------------------- updateStudentStatus ---------------------- *)
(* faulty variant: an expelled student is refused every new status *)
updateOutcome_expelledLocked(studentId, newStatus) ==
    LET s == FindStudent(studentId)
    IN  IF s = 0 THEN "InvalidReference"
        ELSE IF students[s].status = "Expelled" THEN "IllegalTransition"
        ELSE "ok"

(* faulty variant: the guard on expelled students left out *)
updateOutcome_noGuard(studentId, newStatus) ==
    IF FindStudent(studentId) = 0 THEN "InvalidReference" ELSE "ok"

(* faulty variant: a graduated student is locked like an expelled one *)
updateOutcome_graduatedLocked(studentId, newStatus) ==
    LET s == FindStudent(studentId)
    IN  IF s = 0 THEN "InvalidReference"
        ELSE IF students[s].status \in {"Expelled", "Graduated"}
                /\ newStatus # "Academic_Leave"
             THEN "IllegalTransition"
        ELSE "ok"

(* the error updateStudentStatus throws, "ok" when it throws none *)
updateOutcome(studentId, newStatus) ==
    LET s == FindStudent(studentId)
    IN  IF s = 0 THEN "InvalidReference"
        ELSE IF students[s].status = "Expelled" /\ newStatus # "Academic_Leave"
             THEN "IllegalTransition"
        ELSE "ok"

(* faulty variant: the status is assigned before the transition is validated *)
updateStudentStatus_assignFirst(studentId, newStatus) ==
    LET r == updateOutcome(studentId, newStatus)
    IN  /\ students' =
             IF r # "InvalidReference"
             THEN [students EXCEPT ![FindStudent(studentId)].status = newStatus]
             ELSE students
        /\ last' = [op |-> "updateStudentStatus",
                    args |-> <<studentId, newStatus>>, result |-> r]
        /\ ret' = <<>>
        /\ wasExpelled' = wasExpelled \cup NowExpelled(students')
        /\ UNCHANGED <<courses, grades, nextStudentId, nextCourseId,
                       returnedIds, registered>>

(* faulty variant: the status is written to every student *)
updateStudentStatus_everyone(studentId, newStatus) ==
    LET r == updateOutcome(studentId, newStatus)
    IN  /\ students' =
             IF r = "ok"
             THEN [i \in 1..Len(students) |->
                     [students[i] EXCEPT !.status = newStatus]]
             ELSE students
        /\ last' = [op |-> "updateStudentStatus",
                    args |-> <<studentId, newStatus>>, result |-> r]
        /\ ret' = <<>>
        /\ wasExpelled' = wasExpelled \cup NowExpelled(students')
        /\ UNCHANGED <<courses, grades, nextStudentId, nextCourseId,
                       returnedIds, registered>>

updateStudentStatus(studentId, newStatus) ==
    LET r == updateOutcome(studentId, newStatus)
    IN  /\ students' =
             IF r = "ok"
             THEN [students EXCEPT ![FindStudent(studentId)].status = newStatus]
             ELSE students
        /\ last' = [op |-> "updateStudentStatus",
                    args |-> <<studentId, newStatus>>, result |-> r]
        /\ ret' = <<>>
        /\ wasExpelled' = wasExpelled \cup NowExpelled(students')
        /\ UNCHANGED <<courses, grades, nextStudentId, nextCourseId,
                       returnedIds, registered>>

(* ---------------------------- calculateAverageGrade -------------------- *)
(* faulty variant: ungraded registrations are not filtered out of the divisor *)
calculateAverageGrade_countsNull(studentId) ==
    LET studentGrades ==
            SelectSeq(grades, LAMBDA g : g.studentId = studentId)
        total == ReduceGrades(studentGrades, 0)
    IN  IF Len(studentGrades) # 0 THEN Quotient(total, Len(studentGrades))
        ELSE Zero

calculateAverageGrade(studentId) ==
    LET studentGrades ==
            SelectSeq(grades,
                      LAMBDA g : g.studentId = studentId /\ g.grade # Null)
        total == ReduceGrades(studentGrades, 0)
    IN  IF Len(studentGrades) # 0 THEN Quotient(total, Len(studentGrades))
        ELSE Zero

CalculateAverageGradeCall(studentId) ==
    /\ last' = [op |-> "calculateAverageGrade", args |-> <<studentId>>,
                result |-> "ok"]
    /\ ret' = calculateAverageGrade(studentId)
    /\ UNCHANGED <<students, courses, grades, nextStudentId, nextCourseId,
                   returnedIds, registered, wasExpelled>>

(* ---------------------------- getTopStudentsByFaculty ------------------ *)
(* the faculties the queries are called with *)
FacultyInputs == {"Computer_Science", "Economics"}

(* this.students.filter(s => s.faculty === faculty) *)
getStudentsByFaculty(faculty) ==
    SelectSeq(students, LAMBDA s : s.faculty = faculty)

(* average >= n, for a quotient in lowest terms and an integer n *)
AtLeast(average, n) == average.num >= n * average.den

(* faulty variant: the threshold 4.5 of the comment at line 149 *)
getTopStudentsByFaculty_half(faculty) ==
    LET studentsByFaculty == getStudentsByFaculty(faculty)
    IN  SelectSeq(studentsByFaculty,
                  LAMBDA student :
                      LET average == calculateAverageGrade(student.id)
                      IN  2 * average.num >= (2 * Excellent - 1) * average.den)

getTopStudentsByFaculty(faculty) ==
    LET studentsByFaculty == getStudentsByFaculty(faculty)
    IN  SelectSeq(studentsByFaculty,
                  LAMBDA student :
                      LET average == calculateAverageGrade(student.id)
                      IN  AtLeast(average, Excellent - 1))

GetTopStudentsByFacultyCall(faculty) ==
    /\ last' = [op |-> "getTopStudentsByFaculty", args |-> <<faculty>>,
                result |-> "ok"]
    /\ ret' = getTopStudentsByFaculty(faculty)
    /\ UNCHANGED <<students, courses, grades, nextStudentId, nextCourseId,
                   returnedIds, registered, wasExpelled>>

(* ---------------------------- specification ---------------------------- *)
Next ==
    \/ \E student \in StudentInputs : enrollStudent(student)
    \/ pushCourses
    \/ \E sid \in StudentIds, cid \in CourseIds : registerForCourse(sid, cid)
    \/ \E sid \in StudentIds, cid \in CourseIds, g \in GradeInputs :
          setGrade(sid, cid, g)
    \/ \E sid \in StatusIds, st \in StudentStatus :
          updateStudentStatus(sid, st)

Spec == Init /\ [][Next]_vars

(* ------------- the queries, applied to bounded collections ------------- *)
(* a second course of course1's faculty, so that one student can hold      *)
(* several graded registrations                                            *)
course3 ==
    [id |-> 3, name |-> "Algorithms", type |-> "Special", credits |-> 4,
     semester |-> "Second", faculty |-> "Computer_Science", maxStudents |-> 2]

QueryCatalog == <<course1, course2, course3>>

(* the students collection after enrolling n students, n <= MaxStudents *)
QueryStudents ==
    UNION { { [i \in 1..n |-> NewStudent(f[i], i)] : f \in [1..n -> StudentInputs] }
            : n \in 0..MaxStudents }

(* the records registerForCourse can append and setGrade can grade *)
QueryRecords(studs) ==
    { [studentId |-> studs[i].id, courseId |-> QueryCatalog[j].id,
       grade |-> g, semester |-> QueryCatalog[j].semester] :
        <<i, j, g>> \in
          { t \in (1..Len(studs)) \X (1..Len(QueryCatalog))
                    \X ({Null} \cup {Some(x) : x \in QueryGradeInputs}) :
              studs[t[1]].faculty = QueryCatalog[t[2]].faculty } }

(* the grade collections of at most MaxRecords records that the operations *)
(* can build: no course over its capacity, and of several records of one   *)
(* (studentId, courseId) pair only the first one graded                    *)
QueryGrades(studs) ==
    { gs \in UNION { [1..n -> QueryRecords(studs)] : n \in 0..MaxRecords } :
        /\ \A j \in 1..Len(QueryCatalog) :
             Cardinality({k \in 1..Len(gs) : gs[k].courseId = QueryCatalog[j].id})
                <= QueryCatalog[j].maxStudents
        /\ \A k \in 1..Len(gs) :
             (\E h \in 1..(k - 1) : /\ gs[h].studentId = gs[k].studentId
                                    /\ gs[h].courseId = gs[k].courseId)
                => gs[k].grade = Null }

InitQuery ==
    /\ students \in QueryStudents
    /\ courses = QueryCatalog
    /\ grades \in QueryGrades(students)
    /\ nextStudentId = Len(students) + 1
    /\ nextCourseId = 1
    /\ last = [op |-> "new", args |-> <<>>, result |-> "ok"]
    /\ ret = <<>>
    /\ returnedIds = [i \in 1..Len(students) |-> i]
    /\ registered = { <<grades[k].studentId, grades[k].courseId>> :
                        k \in 1..Len(grades) }
    /\ wasExpelled = {}

NextQuery ==
    \/ \E sid \in StudentIds : CalculateAverageGradeCall(sid)
    \/ \E faculty \in FacultyInputs : GetTopStudentsByFacultyCall(faculty)

SpecQuery == InitQuery /\ [][NextQuery]_vars

(* ======================== properties =================================== *)
Errors == {"InvalidReference", "FacultyMismatch", "CourseFull",
           "NotRegistered", "IllegalTransition"}

(* the number of grade records of a course, counted over the positions *)
RecordsOf(gs, courseId) ==
    Cardinality({k \in 1..Len(gs) : gs[k].courseId = courseId})

(* C1: in every reachable state, every course of the catalog has at most   *)
(* maxStudents grade records.                                              *)
C1_CapacityRespected ==
    \A i \in 1..Len(courses) :
        RecordsOf(grades, courses[i].id) <= courses[i].maxStudents

(* a registration has just filled course1 up to its capacity *)
C1_Witness ==
    /\ last.op = "registerForCourse"
    /\ last.result = "ok"
    /\ last.args[2] = course1.id
    /\ RecordsOf(grades, course1.id) = course1.maxStudents

(* C2: the k-th enrollStudent call returns id k (ids start at 1, increase  *)
(* by one, none twice), whatever calls come in between, and no two stored  *)
(* students share an id.                                                   *)
C2_SequentialIds ==
    /\ \A k \in 1..Len(returnedIds) : returnedIds[k] = k
    /\ \A i, j \in 1..Len(students) :
          i # j => students[i].id # students[j].id
    /\ last.op = "enrollStudent" => ret.id = Len(returnedIds)

(* a second enrollment, made after registrations and gradings *)
C2_Witness ==
    /\ last.op = "enrollStudent"
    /\ Len(returnedIds) >= 2
    /\ \E k \in 1..Len(grades) : grades[k].grade # Null

(* C3: for an existing student and an existing course of one faculty,      *)
(* registerForCourse fails with CourseFull exactly when the course already *)
(* has maxStudents grade records, and otherwise succeeds and adds one.     *)
C3_Step ==
    \A sid \in StudentIds, cid \in CourseIds :
        ( /\ last'.op = "registerForCourse"
          /\ last'.args = <<sid, cid>>
          /\ FindStudent(sid) # 0
          /\ FindCourse(cid) # 0
          /\ students[FindStudent(sid)].faculty = courses[FindCourse(cid)].faculty )
        => LET before == RecordsOf(grades, cid)
               max == courses[FindCourse(cid)].maxStudents
           IN  /\ (last'.result = "CourseFull") <=> (before = max)
               /\ last'.result # "CourseFull"
                    => /\ last'.result = "ok"
                       /\ RecordsOf(grades', cid) = before + 1

C3_CourseFullExactlyAtCapacity == [][C3_Step]_vars

(* the registration after the maxStudents-th one was refused *)
C3_Witness ==
    /\ last.op = "registerForCourse"
    /\ last.result = "CourseFull"
    /\ RecordsOf(grades, last.args[2]) = courses[FindCourse(last.args[2])].maxStudents

(* C4: registerForCourse called with an existing student and an existing   *)
(* course of different faculties fails with FacultyMismatch, whether the   *)
(* course is full or not.                                                  *)
C4_FacultyMismatch ==
    ( /\ last.op = "registerForCourse"
      /\ FindStudent(last.args[1]) # 0
      /\ FindCourse(last.args[2]) # 0
      /\ students[FindStudent(last.args[1])].faculty
            # courses[FindCourse(last.args[2])].faculty )
    => last.result = "FacultyMismatch"

(* a student of another faculty was refused at a full course *)
C4_Witness ==
    /\ last.op = "registerForCourse"
    /\ last.result = "FacultyMismatch"
    /\ RecordsOf(grades, last.args[2]) = courses[FindCourse(last.args[2])].maxStudents

(* C5: setGrade succeeds exactly when registerForCourse succeeded earlier  *)
(* for the same (studentId, courseId) pair, and fails with NotRegistered   *)
(* otherwise.                                                              *)
C5_GradeOnlyRegistered ==
    /\ last.op = "setGrade"
         => /\ last.result \in {"ok", "NotRegistered"}
            /\ (last.result = "ok")
                  <=> (<<last.args[1], last.args[2]>> \in registered)
    /\ \A sid \in StudentIds, cid \in CourseIds :
          (FindRegistration(sid, cid) # 0) <=> (<<sid, cid>> \in registered)

(* a grade was refused for a student whose fellow is registered in the     *)
(* course                                                                  *)
C5_Witness ==
    /\ last.op = "setGrade"
    /\ last.result = "NotRegistered"
    /\ \E k \in 1..Len(grades) :
          /\ grades[k].courseId = last.args[2]
          /\ grades[k].studentId # last.args[1]

(* C6: for an Expelled student updateStudentStatus succeeds with           *)
(* Academic_Leave and fails with IllegalTransition with any other status;  *)
(* in every step an Expelled student stays Expelled or moves to            *)
(* Academic_Leave.                                                         *)
C6_Step ==
    /\ \A i \in 1..Len(students) :
          students[i].status = "Expelled"
             => students'[i].status \in {"Expelled", "Academic_Leave"}
    /\ ( /\ last'.op = "updateStudentStatus"
         /\ FindStudent(last'.args[1]) # 0
         /\ students[FindStudent(last'.args[1])].status = "Expelled" )
       => IF last'.args[2] = "Academic_Leave"
          THEN /\ last'.result = "ok"
               /\ students'[FindStudent(last'.args[1])].status = "Academic_Leave"
          ELSE last'.result = "IllegalTransition"

C6_ExpelledOnlyToLeave == [][C6_Step]_vars

(* an expelled student was refused a status *)
C6_Witness ==
    /\ last.op = "updateStudentStatus"
    /\ last.result = "IllegalTransition"
    /\ students[FindStudent(last.args[1])].status = "Expelled"

(* C7: a failing registerForCourse, setGrade or updateStudentStatus leaves *)
(* students, courses, grades and the next student id as they were.         *)
C7_Step ==
    ( /\ last'.op \in {"registerForCourse", "setGrade", "updateStudentStatus"}
      /\ last'.result \in Errors )
    => UNCHANGED <<students, courses, grades, nextStudentId>>

C7_FailureChangesNothing == [][C7_Step]_vars

(* a call failed in a system that holds students, courses and grades *)
C7_Witness ==
    /\ last.op \in {"registerForCourse", "setGrade", "updateStudentStatus"}
    /\ last.result \in Errors
    /\ students # <<>>
    /\ courses # <<>>
    /\ \E k \in 1..Len(grades) : grades[k].grade # Null

(* C8: no two grade records have the same studentId and the same courseId  *)
(* (a second registration of a pair is rejected).                          *)
C8_NoDuplicateRegistration ==
    \A i, j \in 1..Len(grades) :
        (i # j) => ~( /\ grades[i].studentId = grades[j].studentId
                      /\ grades[i].courseId = grades[j].courseId )

(* C9: every grade record names a stored student and a stored course of    *)
(* one faculty; registerForCourse with an unknown student or course id     *)
(* fails with InvalidReference and adds no record.                         *)
C9_References ==
    \A k \in 1..Len(grades) :
        /\ FindStudent(grades[k].studentId) # 0
        /\ FindCourse(grades[k].courseId) # 0
        /\ students[FindStudent(grades[k].studentId)].faculty
              = courses[FindCourse(grades[k].courseId)].faculty

C9_Step ==
    ( /\ last'.op = "registerForCourse"
      /\ \/ FindStudent(last'.args[1]) = 0
         \/ FindCourse(last'.args[2]) = 0 )
    => /\ last'.result = "InvalidReference"
       /\ grades' = grades

C9_ValidReferences == []C9_References /\ [][C9_Step]_vars

(* an unknown id was refused while records exist *)
C9_Witness ==
    /\ last.op = "registerForCourse"
    /\ last.result = "InvalidReference"
    /\ grades # <<>>

(* the positions of a student's graded records, and the sum of their grades *)
GradedPositions(studentId) ==
    {k \in 1..Len(grades) :
        grades[k].studentId = studentId /\ Len(grades[k].grade) = 1}

RECURSIVE SumAt(_)
SumAt(S) ==
    IF S = {} THEN 0
    ELSE LET k == CHOOSE x \in S : TRUE
         IN  grades[k].grade[1] + SumAt(S \ {k})

(* C10: calculateAverageGrade returns 0 for a student without a graded     *)
(* record, and otherwise the sum of the student's non-null grades divided  *)
(* by their number; grades 5 and 4 give 9/2.                               *)
C10_AverageIsMean ==
    last.op = "calculateAverageGrade"
    => LET P == GradedPositions(last.args[1])
       IN  /\ P = {} => ret = Zero
           /\ P # {} => /\ ret.den > 0
                        /\ ret.num * Cardinality(P) = SumAt(P) * ret.den
           /\ (Cardinality(P) = 2 /\ SumAt(P) = 9) => ret = [num |-> 9, den |-> 2]

(* the average 4.5 of grades 5 and 4, an ungraded record beside them *)
C10_Witness ==
    /\ last.op = "calculateAverageGrade"
    /\ ret = [num |-> 9, den |-> 2]
    /\ \E k \in 1..Len(grades) :
          grades[k].studentId = last.args[1] /\ grades[k].grade = Null

(* C11: getTopStudentsByFaculty returns exactly the students of the given  *)
(* faculty whose average grade is at least 4: average 4 is included, an    *)
(* average below 4 or no graded record is excluded, and no student of      *)
(* another faculty is returned.                                            *)
IsTopStudent(i, faculty) ==
    LET P == GradedPositions(students[i].id)
    IN  /\ students[i].faculty = faculty
        /\ P # {}
        /\ SumAt(P) >= 4 * Cardinality(P)

C12_Step ==
    ( /\ last'.op = "updateStudentStatus"
      /\ FindStudent(last'.args[1]) # 0
      /\ students[FindStudent(last'.args[1])].status
            \in {"Active", "Academic_Leave", "Graduated"} )
    => /\ last'.result = "ok"
       /\ students'[FindStudent(last'.args[1])].status = last'.args[2]

C12_OtherTransitionsFree == [][C12_Step]_vars

(* a student has just been moved to Expelled (from another status: the     *)
(* move from Expelled to Expelled is refused)                              *)
C12_Witness ==
    /\ last.op = "updateStudentStatus"
    /\ last.result = "ok"
    /\ last.args[2] = "Expelled"
    /\ students[FindStudent(last.args[1])].status = "Expelled"

(* C13: a stored student keeps its position, id, full name, faculty, year  *)
(* and group in every step; its status changes only by a successful        *)
(* updateStudentStatus for its id, to the new status.                      *)
C13_Step ==
    \A i \in 1..Len(students) :
        /\ Len(students') >= i
        /\ students'[i].id = students[i].id
        /\ students'[i].fullName = students[i].fullName
        /\ students'[i].faculty = students[i].faculty
        /\ students'[i].year = students[i].year
        /\ students'[i].groupNumber = students[i].groupNumber
        /\ students'[i].status # students[i].status
             => /\ last'.op = "updateStudentStatus"
                /\ last'.result = "ok"
                /\ last'.args = <<students[i].id, students'[i].status>>

C13_StudentsImmutableButStatus == [][C13_Step]_vars

(* a second student enrolled after the first one's status was changed and  *)
(* records were created                                                    *)
C13_Witness ==
    /\ last.op = "enrollStudent"
    /\ Len(students) = 2
    /\ students[1].status # "Active"
    /\ grades # <<>>

(* the position of the first record of a pair, 0 when there is none *)
FirstOfPair(gs, studentId, courseId) ==
    LET M == {k \in 1..Len(gs) :
                gs[k].studentId = studentId /\ gs[k].courseId = courseId}
    IN  IF M = {} THEN 0 ELSE CHOOSE k \in M : \A h \in M : k <= h

(* C14: a successful setGrade sets the grade of the first record of the    *)
(* pair to the given value and changes nothing else: not the number of     *)
(* records, no record's ids or semester, no other record's grade, not the  *)
(* students, not the courses.                                              *)
C14_Step ==
    (last'.op = "setGrade" /\ last'.result = "ok")
    => LET k == FirstOfPair(grades, last'.args[1], last'.args[2])
       IN  /\ k # 0
           /\ Len(grades') = Len(grades)
           /\ grades'[k].grade = Some(last'.args[3])
           /\ \A j \in 1..Len(grades) :
                /\ grades'[j].studentId = grades[j].studentId
                /\ grades'[j].courseId = grades[j].courseId
                /\ grades'[j].semester = grades[j].semester
                /\ j # k => grades'[j].grade = grades[j].grade
           /\ UNCHANGED <<students, courses>>

C14_SetGradeFrame == [][C14_Step]_vars

(* a pair registered twice was graded: the second record is still ungraded *)
C14_Witness ==
    /\ last.op = "setGrade"
    /\ last.result = "ok"
    /\ \E k \in 1..Len(grades) :
          /\ grades[k].studentId = last.args[1]
          /\ grades[k].courseId = last.args[2]
          /\ k # FirstOfPair(grades, last.args[1], last.args[2])

(* C15: a successful registerForCourse appends one record at the end of    *)
(* grades, with the given ids, grade null and the course's semester, and   *)
(* leaves the earlier records, the students and the courses unchanged.     *)
C15_Step ==
    (last'.op = "registerForCourse" /\ last'.result = "ok")
    => /\ Len(grades') = Len(grades) + 1
       /\ \A j \in 1..Len(grades) : grades'[j] = grades[j]
       /\ grades'[Len(grades')].studentId = last'.args[1]
       /\ grades'[Len(grades')].courseId = last'.args[2]
       /\ grades'[Len(grades')].grade = Null
       /\ \E i \in 1..Len(courses) :
             /\ courses[i].id = last'.args[2]
             /\ grades'[Len(grades')].semester = courses[i].semester
       /\ UNCHANGED <<students, courses>>

C15_RegisterAppends == [][C15_Step]_vars

(* a registration for course2 made after a graded one for course1 *)
C15_Witness ==
    /\ last.op = "registerForCourse"
    /\ last.result = "ok"
    /\ Len(grades) >= 2
    /\ grades[Len(grades)].semester = course2.semester
    /\ grades[1].semester = course1.semester
    /\ grades[1].grade # Null

(* C16: of several records of one (studentId, courseId) pair, every one    *)
(* but the first keeps grade null; such records count against the course's *)
(* capacity and never enter calculateAverageGrade.                         *)
C16_LaterDuplicatesStayNull ==
    /\ \A k \in 1..Len(grades) :
          k # FirstOfPair(grades, grades[k].studentId, grades[k].courseId)
             => grades[k].grade = Null
    /\ \A cid \in CourseIds : RegistrationCount(cid) = RecordsOf(grades, cid)
    /\ \A sid \in StudentIds :
          LET F == {k \in GradedPositions(sid) :
                      k = FirstOfPair(grades, sid, grades[k].courseId)}
              average == calculateAverageGrade(sid)
          IN  /\ F = {} => average = Zero
              /\ F # {} => average.num * Cardinality(F) = SumAt(F) * average.den

(* one student holds both places of course1; the pair has been graded *)
C16_Witness ==
    /\ Len(grades) >= 2
    /\ RecordsOf(grades, course1.id) = course1.maxStudents
    /\ \E k \in 1..Len(grades) :
          /\ grades[k].courseId = course1.id
          /\ k # FirstOfPair(grades, grades[k].studentId, grades[k].courseId)
          /\ grades[FirstOfPair(grades, grades[k].studentId,
                                grades[k].courseId)].grade # Null
    /\ last.op = "setGrade"
    /\ last.result = "ok"

(* C17: Expelled is not absorbing: an Expelled student can be moved to     *)
(* Academic_Leave, and a student on Academic_Leave to Active and to        *)
(* Graduated, so two successful calls lead from Expelled to either.        *)
C17_ExpelledNotAbsorbing ==
    \A i \in 1..Len(students) :
        /\ students[i].status = "Expelled"
             => ENABLED ( /\ updateStudentStatus(students[i].id, "Academic_Leave")
                          /\ last'.result = "ok"
                          /\ students'[i].status = "Academic_Leave" )
        /\ students[i].status = "Academic_Leave"
             => \A st \in {"Active", "Graduated"} :
                   ENABLED ( /\ updateStudentStatus(students[i].id, st)
                             /\ last'.result = "ok"
                             /\ students'[i].status = st )

(* a student who was Expelled is Active or Graduated *)
C17_Witness ==
    \E i \in 1..Len(students) :
        /\ students[i].id \in wasExpelled
        /\ students[i].status \in {"Active", "Graduated"}

(* C18: the number of records of a course never decreases, and a           *)
(* registration for a course that has maxStudents records, by an existing  *)
(* student of its faculty, fails with CourseFull, whatever was done since  *)
(* the course filled up.                                                   *)
C18_Step ==
    \A cid \in CourseIds :
        /\ RecordsOf(grades', cid) >= RecordsOf(grades, cid)
        /\ ( /\ FindCourse(cid) # 0
             /\ RecordsOf(grades, cid) >= courses[FindCourse(cid)].maxStudents
             /\ last'.op = "registerForCourse"
             /\ last'.args[2] = cid
             /\ FindStudent(last'.args[1]) # 0
             /\ students[FindStudent(last'.args[1])].faculty
                   = courses[FindCourse(cid)].faculty )
           => last'.result = "CourseFull"

C18_FullStaysFull == [][C18_Step]_vars

(* a registration refused at a full course whose records are all graded *)
C18_Witness ==
    /\ last.op = "registerForCourse"
    /\ last.result = "CourseFull"
    /\ \A k \in 1..Len(grades) :
          grades[k].courseId = last.args[2] => grades[k].grade # Null

(* the outcome of registerForCourse computed without any student's status: *)
(* from the ids and faculties of the students, the courses and the grades  *)
StatusFreeRegisterOutcome(studentId, courseId) ==
    LET S == {i \in 1..Len(students) : students[i].id = studentId}
        C == {j \in 1..Len(courses) : courses[j].id = courseId}
    IN  IF S = {} \/ C = {} THEN "InvalidReference"
        ELSE LET i == CHOOSE x \in S : \A y \in S : x <= y
                 j == CHOOSE x \in C : \A y \in C : x <= y
             IN  IF students[i].faculty # courses[j].faculty
                 THEN "FacultyMismatch"
                 ELSE IF RecordsOf(grades, courseId) >= courses[j].maxStudents
                 THEN "CourseFull"
                 ELSE "ok"

(* C19: the result of registerForCourse and of setGrade, and their change  *)
(* to grades, are functions of the arguments, the students' ids and        *)
(* faculties, the courses and the grades: no student's status enters, so   *)
(* two states that differ in status only give the same outcome.            *)
C19_Step ==
    /\ last'.op = "registerForCourse"
         => LET r == StatusFreeRegisterOutcome(last'.args[1], last'.args[2])
            IN  /\ last'.result = r
                /\ r # "ok" => grades' = grades
                /\ r = "ok" => /\ Len(grades') = Len(grades) + 1
                               /\ SubSeq(grades', 1, Len(grades)) = grades
    /\ last'.op = "setGrade"
         => LET k == FirstOfPair(grades, last'.args[1], last'.args[2])
            IN  /\ last'.result = IF k = 0 THEN "NotRegistered" ELSE "ok"
                /\ grades' = IF k = 0 THEN grades
                             ELSE [grades EXCEPT ![k].grade = Some(last'.args[3])]

C19_StatusIrrelevant == [][C19_Step]_vars

(* an Expelled student, registered and graded before, was registered again *)
C19_Witness ==
    /\ last.op = "registerForCourse"
    /\ last.result = "ok"
    /\ students[FindStudent(last.args[1])].status = "Expelled"
    /\ \E k \in 1..Len(grades) :
          grades[k].studentId = last.args[1] /\ grades[k].grade # Null

====
